---- MODULE Spec2Model ----
(***************************************************************************)
(* The synchronization engine of the Vectorize plugin, in its two backend  *)
(* variants: Chroma (src/main.ts, native upsert) and Milvus                *)
(* (src/unnamed/part_000, delete then insert).                             *)
(*                                                                         *)
(* JavaScript runs one continuation at a time: the code between two awaits *)
(* is atomic.  A process is suspended at an await (its pc); one step of a  *)
(* process is "the awaited request completes with some outcome, and the    *)
(* continuation runs up to the next await, where it builds the next        *)
(* request from the plugin's state as it is then".  What a request         *)
(* carries (its target address and collection name, the modified_time in   *)
(* its body) is fixed when the request is built and kept in the process    *)
(* record until the request completes.                                     *)
(***************************************************************************)
EXTENDS Integers, Sequences, FiniteSets, TLC

\* ------------------------------------------------------------------ bounds
NumFiles == 2          \* document keys 1..NumFiles; the vault holds the first `vault` of them
MaxTime == 1           \* file.stat.mtime ranges over 0..MaxTime
MaxRecs == 2           \* records one key may hold in one collection (Milvus insert appends)
MaxSaving == 1         \* saveSettings calls suspended on saveData at one time
MaxLimit == 2          \* the `limit` argument of searchSimilar ranges over 1..MaxLimit
MaxGroups == 2         \* result groups in one search answer
MaxRows == 2           \* rows in one result group
MaxRuns == 2           \* runs of equal characters in a note content
MaxDocs == 21          \* documents of the vault in the recompute loop taken by itself

Files == 1..NumFiles
Times == 0..MaxTime
Procs == {"p1"}
Backends == {"chroma", "milvus"}
Urls == {"u1", "u2"}
Colls == {"c1", "c2"}
Targets == [url : Urls, coll : Colls]

\* ------------------------------------------------------- program constants
\* DEFAULT_SETTINGS, its store address and collection name ("u1" and "c1"
\* stand for each variant's own defaults) ...
DEFAULT_SETTINGS == [url |-> "u1", coll |-> "c1"]
\* ... and its embedding model and Ollama address.
DEFAULT_OLLAMA(b) ==
    [model |-> IF b = "chroma" THEN "nomic-embed-text:latest" ELSE "nomic-embed-text",
     ollamaUrl |-> "o1"]
\* The four options, and the empty text of a cleared input.
OptionNames == {"url", "coll", "model", "ollamaUrl"}
Empty == ""
\* A key that data.json does not hold.
Unset == "<unset>"
\* `undefined`: a metadata row that carries no modified_time
NoTime == -1
\* a null row in a lookup response (metadatas[0] / data[0] is null)
NullRow == -2
\* the `limit` both query commands pass to searchSimilar
QueryLimit == 10
\* `excludePath` left out; a row without file_path
NoPath == 0
\* a row without distance
NoDist == -1
\* the score 1.0, in tenths
One == 10
\* The length of content_preview.
PreviewLen == 500
\* recomputeAllVectors shows its progress when processedCount % 10 === 0.
ProgressEvery == 10

VARIABLES
    backend,                \* which variant of the plugin runs
    settings,               \* this.settings: the store address and the collection name
    collectionInitialized,  \* the memoized readiness flag
    colls,                  \* the stores: Targets -> "absent" | "unloaded" | "loaded"
    store,                  \* the stores: Targets -> Files -> sequence of records
    vault,                  \* the vault: getMarkdownFiles() is the files 1..vault
    mtime,                  \* the vault: file.stat.mtime of each file
    proc,                   \* the commands in flight, one record per process
    saving,                 \* saveSettings calls suspended on saveData
    verified,               \* history: the address and name the flag was set for
    ollama,                 \* this.settings: the embedding model and the Ollama address
    hist,                   \* history of the vectorizeNote calls, per document
    call,                   \* the last application of a helper, with its arguments
    pass                    \* the recompute loop taken by itself: its counters and notices

vars == <<backend, settings, collectionInitialized, colls, store, vault, mtime, proc,
          saving, verified, ollama, hist, call, pass>>

\* ------------------------------------------------------- process records
NoChk == [valid |-> FALSE, file |-> 0, tgt |-> DEFAULT_SETTINGS, kind |-> "none",
          first |-> NoTime, mt |-> 0, res |-> FALSE]
NoReport == [shown |-> FALSE, processed |-> 0, errors |-> 0]

\* A command as it starts: nothing counted, nothing in flight.
Fresh(c) ==
    [pc |-> "idle", cmd |-> c, idx |-> 0,
     processedCount |-> 0, errorCount |-> 0,
     tgt |-> DEFAULT_SETTINGS, body |-> 0, basis |-> DEFAULT_SETTINGS,
     exclude |-> NoPath, results |-> <<>>,
     ens |-> "none", notices |-> <<>>, report |-> NoReport,
     chk |-> NoChk,
     stale |-> {}, fresh |-> {}, attempted |-> {}, embedded |-> {},
     written |-> {}, failed |-> {}, refused |-> {}, confirmed |-> "none",
     input |-> "none"]

\* The record of the last checkIfNeedsUpdate is kept for one step only.
Clr(r) == [r EXCEPT !.chk = NoChk]

\* `new Notice(...)`
Notice(r, n) == [r EXCEPT !.notices = Append(@, n)]

\* ------------------------------------------------------------ the stores
Available(t) == colls[t] = "loaded"

Record(t) == [mt |-> t]

\* What a point lookup for file f can answer: the request throws, the body is
\* null, the body lacks its ids/data field, the first row is null, or (when
\* the collection is there) the rows for the key; which of several rows comes
\* first is up to the store.
Lookup(t, f) ==
    {[kind |-> k, first |-> NoTime] : k \in {"throw", "nulljson", "nofield"}}
    \cup {[kind |-> "row", first |-> NullRow]}
    \cup (IF ~Available(t) THEN {}
          ELSE IF store[t][f] = <<>> THEN {[kind |-> "empty", first |-> NoTime]}
          ELSE {[kind |-> "row", first |-> store[t][f][j].mt] :
                    j \in 1..Len(store[t][f])})

\* Every shape of answer, for any state of the stores.
Answers ==
    [kind : {"throw", "nulljson", "nofield", "empty", "row"},
     first : Times \cup {NoTime, NullRow}]

\* ------------------------------------------------- checkIfNeedsUpdate
\* JavaScript's `a > b` for a number a: a comparison with undefined is false.
JsGreater(a, b) == IF b = NoTime THEN FALSE ELSE a > b

\* JavaScript's `!v` for a number or undefined.
JsFalsy(v) == v = NoTime \/ v = 0

\* A variant that takes "no record for the key" for up to date.
checkIfNeedsUpdate_EmptyIsFresh(b, resp, mt) ==
    IF resp.kind \in {"throw", "nulljson"} THEN TRUE
    ELSE IF resp.kind = "nofield" THEN TRUE
    ELSE IF resp.kind = "empty" THEN FALSE
    ELSE IF b = "chroma"
         THEN IF resp.first = NullRow \/ JsFalsy(resp.first) THEN TRUE
              ELSE mt > resp.first
         ELSE IF resp.first = NullRow THEN TRUE
              ELSE JsGreater(mt, resp.first)

\* A variant whose catch block returns false.
checkIfNeedsUpdate_CatchIsFresh(b, resp, mt) ==
    IF resp.kind \in {"throw", "nulljson"} THEN FALSE
    ELSE IF resp.kind \in {"nofield", "empty"} THEN TRUE
    ELSE IF b = "chroma"
         THEN IF resp.first = NullRow \/ JsFalsy(resp.first) THEN TRUE
              ELSE mt > resp.first
         ELSE IF resp.first = NullRow THEN FALSE
              ELSE JsGreater(mt, resp.first)

\* checkIfNeedsUpdate(file), given the lookup's answer and file.stat.mtime
\* as it is when the answer is handled.  Everything that throws inside the
\* try block (the request, a property of null) lands in `catch`: true.
checkIfNeedsUpdate(b, resp, mt) ==
    IF resp.kind \in {"throw", "nulljson"} THEN TRUE
    ELSE IF resp.kind \in {"nofield", "empty"} THEN TRUE
    ELSE IF b = "chroma"
         THEN IF resp.first = NullRow \/ JsFalsy(resp.first) THEN TRUE
              ELSE mt > resp.first
         ELSE IF resp.first = NullRow THEN TRUE
              ELSE JsGreater(mt, resp.first)

\* ---------------------------------------------------- the document loop
\* The for-loop moves to the file after r.idx: refreshModifiedVectors builds
\* the lookup request of checkIfNeedsUpdate, recomputeAllVectors calls
\* vectorizeNote, which awaits vault.read; past the last file the final
\* Notice shows the tally.
Advance(r) ==
    LET i == r.idx + 1 IN
    IF i > vault
    THEN [Notice(r, "tally") EXCEPT
                   !.pc = "done", !.idx = i,
                   !.report = [shown |-> TRUE, processed |-> r.processedCount,
                               errors |-> r.errorCount]]
    ELSE IF r.cmd = "refresh"
    THEN [r EXCEPT !.pc = "chk", !.idx = i, !.tgt = settings]
    ELSE [r EXCEPT !.pc = "read", !.idx = i, !.attempted = @ \cup {i}]

\* The loop's catch block: the error is counted and the loop goes on.
LoopCatch(r) ==
    Advance([r EXCEPT !.errorCount = @ + 1, !.failed = @ \cup {r.idx}])

\* recomputeAllVectors: `if (processedCount % 10 === 0)` after the count.
\* refreshModifiedVectors shows no progress.
ProgressDue(cmd, processedCount) ==
    cmd = "recompute" /\ processedCount % ProgressEvery = 0

\* vectorizeNote returned: the document is counted, the progress Notice is
\* shown when it is due, and the loop goes on.
LoopCounted(r) ==
    LET counted == [r EXCEPT !.processedCount = @ + 1] IN
    Advance(IF ProgressDue(r.cmd, counted.processedCount)
            THEN Notice(counted, "progress") ELSE counted)

\* History: the store answered the write of the current document with an
\* error that vectorizeNote did not look at.
Refused(r) == [r EXCEPT !.refused = @ \cup {r.idx}]

\* A variant that calls vectorizeNote whatever checkIfNeedsUpdate returned.
AfterCheck_Always(r, needsUpdate) ==
    [r EXCEPT !.pc = "read",
              !.stale = IF needsUpdate THEN @ \cup {r.idx} ELSE @,
              !.fresh = IF needsUpdate THEN @ ELSE @ \cup {r.idx},
              !.attempted = @ \cup {r.idx}]

\* refreshModifiedVectors after `await this.checkIfNeedsUpdate(file)`.
AfterCheck(r, needsUpdate) ==
    IF needsUpdate
    THEN [r EXCEPT !.pc = "read", !.stale = @ \cup {r.idx},
                   !.attempted = @ \cup {r.idx}]
    ELSE Advance([r EXCEPT !.fresh = @ \cup {r.idx}])

\* ------------------------------------------------------- searchSimilar
RECURSIVE Orderings(_)
Orderings(S) ==
    IF S = {} THEN {<<>>}
    ELSE UNION {{<<x>> \o s : s \in Orderings(S \ {x})} : x \in S}

Min(a, b) == IF a < b THEN a ELSE b

\* A row of a search answer: the file_path of its metadata (NoPath when the
\* row has none) and its distance in tenths (NoDist when it has none).
Row(path, dist) == [file_path |-> path, distance |-> dist]

\* What a nearest-neighbour request for n results can answer: it throws, or
\* (when the collection is there) it ranks the rows the collection holds, in
\* an order that is up to the embeddings, and returns the first n as one
\* group, the i-th of them at distance i - 1.
Search(t, n) ==
    {[kind |-> "throw", rows |-> <<>>]}
    \cup (IF ~Available(t) THEN {}
          ELSE {[kind |-> "rows",
                 rows |-> [i \in 1..Min(n, Len(o)) |-> Row(o[i][1], Min(i - 1, One))]] :
                    o \in Orderings({fj \in Files \X (1..MaxRecs) :
                                        fj[2] <= Len(store[t][fj[1]])})})

\* JavaScript's `d || 0` for a number or undefined.
OrZero(d) == IF d = NoDist THEN 0 ELSE d

\* The SimilarNote pushed for a row (its distance kept beside it as history):
\* Chroma's score is 1 - (distance || 0), Milvus's is distance || 0.
SimilarNote(b, row) ==
    [filePath |-> row.file_path,
     score |-> IF b = "chroma" THEN One - OrZero(row.distance) ELSE OrZero(row.distance),
     distance |-> row.distance]

\* The `continue` test of the result loop: Chroma skips a row without a
\* file_path and the row of excludePath, Milvus only the row of excludePath.
Skipped(b, row, excludePath) ==
    \/ b = "chroma" /\ row.file_path = NoPath
    \/ excludePath # NoPath /\ row.file_path = excludePath

\* The result loop of searchSimilar over the rows of one group: a skipped
\* row is passed over; a row is pushed and then the loop breaks once
\* `limit` results are there.
RECURSIVE Collect(_, _, _, _, _)
Collect(b, rows, limit, excludePath, results) ==
    IF rows = <<>> THEN results
    ELSE IF Skipped(b, Head(rows), excludePath)
         THEN Collect(b, Tail(rows), limit, excludePath, results)
         ELSE LET pushed == Append(results, SimilarNote(b, Head(rows))) IN
              IF Len(pushed) >= limit THEN pushed
              ELSE Collect(b, Tail(rows), limit, excludePath, pushed)

\* Milvus: the outer loop over the groups of the answer.  The `break` of
\* the inner loop leaves that group only; the next group is gone through
\* with the results collected so far.
RECURSIVE CollectGroups(_, _, _, _)
CollectGroups(groups, limit, excludePath, results) ==
    IF groups = <<>> THEN results
    ELSE CollectGroups(Tail(groups), limit, excludePath,
                       Collect("milvus", Head(groups), limit, excludePath, results))

\* searchSimilar's handling of the answer: Chroma reads the first group
\* (ids[0]; no group, no results), Milvus every group.
PostProcess(b, groups, limit, excludePath) ==
    IF b = "chroma"
    THEN IF groups = <<>> THEN <<>>
         ELSE Collect("chroma", groups[1], limit, excludePath, <<>>)
    ELSE CollectGroups(groups, limit, excludePath, <<>>)

\* SimilarNotesModal: `(result.score * 100).toFixed(1)` percent, in tenths
\* of a percent.
Displayed(score) == (score * 1000) \div One

\* A variant that asks for `limit` rows whatever excludePath is.
NResults_Exact(limit, excludePath) == limit

\* The number of rows the search request asks for:
\* limit + (excludePath ? 1 : 0).
NResults(limit, excludePath) == limit + (IF excludePath # NoPath THEN 1 ELSE 0)

\* searchSimilar once ensureCollection has returned true: the search request
\* is built from the settings as they are now, for NResults rows.
BuildSearch(r) ==
    [r EXCEPT !.pc = "search", !.tgt = settings, !.body = NResults(QueryLimit, r.exclude)]

\* The caller of searchSimilar with its results: no results is a Notice,
\* otherwise the SimilarNotesModal opens.
ShowResults(r, results) ==
    [Notice(r, IF Len(results) = 0 THEN "no_results" ELSE "modal") EXCEPT
        !.pc = "done", !.results = results]

\* The callers' catch block.
ShowError(r) == [Notice(r, "error") EXCEPT !.pc = "done"]

\* ---------------------------------------------------- ensureCollection
\* The caller once ensureCollection has returned true: the sync commands
\* enter their loop, searchSimilar goes on to its request.
Ready(r) ==
    IF r.cmd \in {"refresh", "recompute"} THEN Advance(r) ELSE BuildSearch(r)

\* The caller once ensureCollection has returned false: the sync commands
\* return; searchSimilar returns [] and its caller reports no results.
NotReady(r) ==
    IF r.cmd \in {"refresh", "recompute"} THEN [r EXCEPT !.pc = "done"]
    ELSE ShowResults(r, <<>>)

\* A variant without the early return on the flag.
ensureCollection_Uncached(r) ==
    [r EXCEPT !.pc = "ens_has", !.tgt = settings, !.ens = "pending"]

\* ensureCollection() as it is called: with the flag set it returns true at
\* once; otherwise the existence request is built from the settings as they
\* are now.
ensureCollection(r) ==
    IF collectionInitialized
    THEN Ready([r EXCEPT !.ens = "cached", !.basis = verified])
    ELSE [r EXCEPT !.pc = "ens_has", !.tgt = settings, !.ens = "pending"]

\* ensureCollection's catch block: a Notice with the error, return false.
EnsureFailed(r) == NotReady([Notice(r, "connect_error") EXCEPT !.ens = "failed"])

\* `this.collectionInitialized = true; return true`.
EnsureReady(r) == Ready([r EXCEPT !.ens = "checked"])

HasOutcomes(b) ==
    IF b = "chroma" THEN {"ok", "throw", "badstatus", "malformed"}
    ELSE {"ok", "throw", "soft"}

WriteOutcomes(b) ==
    IF b = "chroma" THEN {"ok", "throw"} ELSE {"ok", "throw", "soft"}

CreateOutcomes(b) ==
    IF b = "chroma" THEN {"ok", "throw", "badstatus"} ELSE {"ok", "throw", "soft"}

\* ------------------------------------------------------------- commands
\* The user runs "Refresh vectors for modified notes": the Notice, then
\* ensureCollection.
refreshModifiedVectors(p) ==
    /\ proc[p].pc \in {"idle", "done"}
    /\ proc' = [proc EXCEPT ![p] =
                    ensureCollection(Notice(Fresh("refresh"), "refreshing"))]
    /\ UNCHANGED <<backend, settings, collectionInitialized, colls, store, vault, mtime, saving, verified>>

\* The user runs "Recompute vectors for all notes": the ConfirmModal opens
\* and the command awaits its answer.
recomputeAllVectors(p) ==
    /\ proc[p].pc \in {"idle", "done"}
    /\ proc' = [proc EXCEPT ![p] = [Fresh("recompute") EXCEPT !.pc = "confirm"]]
    /\ UNCHANGED <<backend, settings, collectionInitialized, colls, store, vault, mtime, saving, verified>>

\* A variant that goes on whatever button was pressed.
ConfirmModal_Ignore(p, confirmed) ==
    /\ proc[p].pc = "confirm"
    /\ proc' = [proc EXCEPT ![p] =
                    ensureCollection(Notice([Clr(proc[p]) EXCEPT
                                                !.confirmed = IF confirmed THEN "yes" ELSE "no"],
                                            "recomputing"))]
    /\ UNCHANGED <<backend, settings, collectionInitialized, colls, store, vault, mtime, saving, verified>>

\* A button of the ConfirmModal is pressed: Cancel ends the command, Confirm
\* goes on to the Notice and ensureCollection.
ConfirmModal(p, confirmed) ==
    /\ proc[p].pc = "confirm"
    /\ proc' = [proc EXCEPT ![p] =
                    IF confirmed
                    THEN ensureCollection(Notice([Clr(proc[p]) EXCEPT !.confirmed = "yes"],
                                                 "recomputing"))
                    ELSE [proc[p] EXCEPT !.pc = "done", !.confirmed = "no"]]
    /\ UNCHANGED <<backend, settings, collectionInitialized, colls, store, vault, mtime, saving, verified>>

\* The ConfirmModal is closed without a button (Esc, the close box, a click
\* outside): onClose empties the dialog and calls nothing; the promise that
\* recomputeAllVectors awaits stays pending.
ConfirmModalClosed(p) ==
    /\ proc[p].pc = "confirm"
    /\ proc' = [proc EXCEPT ![p].pc = "closed"]
    /\ UNCHANGED <<backend, settings, collectionInitialized, colls, store, vault, mtime, saving, verified>>

\* The existence request of ensureCollection completes.  Chroma lists the
\* collections at the address the request went to and the code looks for the
\* collection name the settings hold now; Milvus answers for the name in the
\* request, and an answer without data.has counts as "no such collection".
EnsureHas(p, o) ==
    /\ proc[p].pc = "ens_has"
    /\ o \in HasOutcomes(backend)
    /\ LET r == Clr(proc[p])
           named == [url |-> r.tgt.url, coll |-> settings.coll]
           exists == IF backend = "chroma" THEN colls[named] # "absent"
                     ELSE o = "ok" /\ colls[r.tgt] # "absent"
       IN  IF o = "throw" \/ (backend = "chroma" /\ o # "ok")
           THEN /\ proc' = [proc EXCEPT ![p] = EnsureFailed(r)]
                /\ UNCHANGED <<collectionInitialized, verified>>
           ELSE IF ~exists
           THEN /\ proc' = [proc EXCEPT ![p] =
                                [Notice(r, "creating") EXCEPT
                                    !.pc = "ens_create", !.tgt = settings]]
                /\ UNCHANGED <<collectionInitialized, verified>>
           ELSE IF backend = "chroma"
           THEN /\ collectionInitialized' = TRUE
                /\ verified' = named
                /\ proc' = [proc EXCEPT ![p] = EnsureReady([r EXCEPT !.basis = named])]
           ELSE /\ proc' = [proc EXCEPT ![p] =
                                [r EXCEPT !.pc = "ens_load", !.tgt = settings]]
                /\ UNCHANGED <<collectionInitialized, verified>>
    /\ UNCHANGED <<backend, settings, colls, store, vault, mtime, saving>>

\* The create request completes.  Chroma refuses to create a collection that
\* exists (the request throws) and the code checks the status; Milvus's
\* answer is not looked at: an error answer ("soft") passes for success.
EnsureCreate(p, o) ==
    /\ proc[p].pc = "ens_create"
    /\ o \in CreateOutcomes(backend)
    /\ LET r == Clr(proc[p]) IN
       IF backend = "chroma"
       THEN IF o = "ok"
            THEN /\ colls[r.tgt] = "absent"
                 /\ colls' = [colls EXCEPT ![r.tgt] = "loaded"]
                 /\ collectionInitialized' = TRUE
                 /\ verified' = r.tgt
                 /\ proc' = [proc EXCEPT ![p] =
                                 EnsureReady([Notice(r, "created") EXCEPT !.basis = r.tgt])]
            ELSE /\ proc' = [proc EXCEPT ![p] = EnsureFailed(r)]
                 /\ UNCHANGED <<colls, collectionInitialized, verified>>
       ELSE IF o = "throw"
            THEN /\ proc' = [proc EXCEPT ![p] = EnsureFailed(r)]
                 /\ UNCHANGED <<colls, collectionInitialized, verified>>
            ELSE /\ colls' = IF o = "ok" /\ colls[r.tgt] = "absent"
                             THEN [colls EXCEPT ![r.tgt] = "unloaded"]
                             ELSE colls
                 /\ proc' = [proc EXCEPT ![p] =
                                 [Notice(r, "created") EXCEPT
                                     !.pc = "ens_load", !.tgt = settings]]
                 /\ UNCHANGED <<collectionInitialized, verified>>
    /\ UNCHANGED <<backend, settings, store, vault, mtime, saving>>

\* Milvus only: the load request completes; its answer is not looked at.
EnsureLoad(p, o) ==
    /\ proc[p].pc = "ens_load"
    /\ o \in {"ok", "throw", "soft"}
    /\ LET r == Clr(proc[p]) IN
       IF o = "throw"
       THEN /\ proc' = [proc EXCEPT ![p] = EnsureFailed(r)]
            /\ UNCHANGED <<colls, collectionInitialized, verified>>
       ELSE /\ o = "ok" => colls[r.tgt] # "absent"
            /\ colls' = IF o = "ok" THEN [colls EXCEPT ![r.tgt] = "loaded"] ELSE colls
            /\ collectionInitialized' = TRUE
            /\ verified' = r.tgt
            /\ proc' = [proc EXCEPT ![p] = EnsureReady([r EXCEPT !.basis = r.tgt])]
    /\ UNCHANGED <<backend, settings, store, vault, mtime, saving>>

\* ------------------------------------------------- the loop's awaits
\* refreshModifiedVectors: the lookup of checkIfNeedsUpdate completes with
\* the answer resp, and file.stat.mtime is read as the answer is handled.
CheckDone(p, resp) ==
    /\ proc[p].pc = "chk"
    /\ resp \in Lookup(proc[p].tgt, proc[p].idx)
    /\ LET r == proc[p]
           needsUpdate == checkIfNeedsUpdate(backend, resp, mtime[r.idx])
       IN  proc' = [proc EXCEPT ![p] =
                [AfterCheck(r, needsUpdate) EXCEPT
                    !.chk = [valid |-> TRUE, file |-> r.idx, tgt |-> r.tgt,
                             kind |-> resp.kind,
                             first |-> resp.first, mt |-> mtime[r.idx],
                             res |-> needsUpdate]]]
    /\ UNCHANGED <<backend, settings, collectionInitialized, colls, store, vault, mtime, saving, verified>>

\* vectorizeNote: `await this.app.vault.read(file)` completes; generateEmbedding
\* builds its request.  A throw leaves vectorizeNote for the loop's catch.
VaultRead(p, o) ==
    /\ proc[p].pc = "read"
    /\ o \in {"ok", "throw"}
    /\ LET r == Clr(proc[p]) IN
       proc' = [proc EXCEPT ![p] =
                    IF o = "ok"
                    THEN [r EXCEPT !.pc = "embed", !.embedded = @ \cup {r.idx}]
                    ELSE LoopCatch(r)]
    /\ UNCHANGED <<backend, settings, collectionInitialized, colls, store, vault, mtime, saving, verified>>

\* A variant whose request body leaves out modified_time.
BuildWrite_NoTime(r) ==
    [r EXCEPT !.pc = "write", !.tgt = settings, !.body = NoTime,
              !.written = @ \cup {r.idx}]

\* vectorizeNote after the embedding: Chroma builds the upsert request, with
\* file.stat.mtime as it is now; Milvus builds the delete request first.
BuildWrite(r) ==
    [r EXCEPT !.pc = "write", !.tgt = settings, !.body = mtime[r.idx],
              !.written = @ \cup {r.idx}]

AfterEmbedding(r) ==
    IF backend = "chroma" THEN BuildWrite(r)
    ELSE [r EXCEPT !.pc = "del", !.tgt = settings]

\* generateEmbedding completes: it throws when the request fails or the
\* answer holds no embedding.
GenerateEmbedding(p, o) ==
    /\ proc[p].pc = "embed"
    /\ o \in {"ok", "throw"}
    /\ LET r == Clr(proc[p]) IN
       proc' = [proc EXCEPT ![p] = IF o = "ok" THEN AfterEmbedding(r) ELSE LoopCatch(r)]
    /\ UNCHANGED <<backend, settings, collectionInitialized, colls, store, vault, mtime, saving, verified>>

\* A variant whose delete request carries no filter on file_path.
MilvusDelete_NoFilter(p, o) ==
    /\ proc[p].pc = "del"
    /\ o \in {"ok", "throw", "soft"}
    /\ LET r == Clr(proc[p]) IN
       /\ o = "ok" => Available(r.tgt)
       /\ store' = IF o = "ok"
                   THEN [store EXCEPT ![r.tgt] = [f \in Files |-> <<>>]]
                   ELSE store
       /\ proc' = [proc EXCEPT ![p] = BuildWrite(r)]
    /\ UNCHANGED <<backend, settings, collectionInitialized, colls, vault, mtime, saving, verified>>

\* A variant whose catch block is not empty: a delete that throws ends
\* vectorizeNote.
MilvusDelete_Abort(p, o) ==
    /\ proc[p].pc = "del"
    /\ o \in {"ok", "throw", "soft"}
    /\ LET r == Clr(proc[p]) IN
       /\ o = "ok" => Available(r.tgt)
       /\ store' = IF o = "ok"
                   THEN [store EXCEPT ![r.tgt][r.idx] = <<>>]
                   ELSE store
       /\ proc' = [proc EXCEPT ![p] = IF o = "throw" THEN LoopCatch(r) ELSE BuildWrite(r)]
    /\ UNCHANGED <<backend, settings, collectionInitialized, colls, vault, mtime, saving, verified>>

\* Milvus: the delete request completes.  Whatever it did (it deleted the
\* key's records, it threw and the empty catch swallowed that, it answered
\* with an error), the insert request is built next.
MilvusDelete(p, o) ==
    /\ proc[p].pc = "del"
    /\ o \in {"ok", "throw", "soft"}
    /\ LET r == Clr(proc[p]) IN
       /\ o = "ok" => Available(r.tgt)
       /\ store' = IF o = "ok"
                   THEN [store EXCEPT ![r.tgt][r.idx] = <<>>]
                   ELSE store
       /\ proc' = [proc EXCEPT ![p] = BuildWrite(r)]
    /\ UNCHANGED <<backend, settings, collectionInitialized, colls, vault, mtime, saving, verified>>

\* What a successful write leaves under the key: Chroma's upsert replaces,
\* Milvus's insert adds a row.
Written(b, recs, rec) ==
    IF b = "chroma" THEN <<rec>> ELSE Append(recs, rec)

\* A variant in which a write that reached the store is reported as failed.
StoreWrite_AppliedThenThrows(p, o) ==
    /\ proc[p].pc = "write"
    /\ o \in WriteOutcomes(backend)
    /\ LET r == Clr(proc[p]) IN
       /\ o # "soft" => /\ Available(r.tgt)
                         /\ backend = "milvus" => Len(store[r.tgt][r.idx]) < MaxRecs
       /\ store' = IF o # "soft"
                   THEN [store EXCEPT ![r.tgt][r.idx] =
                             Written(backend, @, Record(r.body))]
                   ELSE store
       /\ proc' = [proc EXCEPT ![p] =
                       IF o = "throw" THEN LoopCatch(r)
                       ELSE IF o = "soft" THEN LoopCounted(Refused(r))
                       ELSE LoopCounted(r)]
    /\ UNCHANGED <<backend, settings, collectionInitialized, colls, vault, mtime, saving, verified>>

\* The upsert (Chroma) or insert (Milvus) request completes.  A throw leaves
\* vectorizeNote for the loop's catch; a Milvus error answer is not looked at
\* and the document counts as processed.
StoreWrite(p, o) ==
    /\ proc[p].pc = "write"
    /\ o \in WriteOutcomes(backend)
    /\ LET r == Clr(proc[p]) IN
       /\ o = "ok" => /\ Available(r.tgt)
                      /\ backend = "milvus" => Len(store[r.tgt][r.idx]) < MaxRecs
       /\ store' = IF o = "ok"
                   THEN [store EXCEPT ![r.tgt][r.idx] =
                             Written(backend, @, Record(r.body))]
                   ELSE store
       /\ proc' = [proc EXCEPT ![p] =
                       IF o = "throw" THEN LoopCatch(r)
                       ELSE IF o = "soft" THEN LoopCounted(Refused(r))
                       ELSE LoopCounted(r)]
    /\ UNCHANGED <<backend, settings, collectionInitialized, colls, vault, mtime, saving, verified>>

\* A variant that tests only !query: a query of blanks goes on.
querySimilarNotes_NoTrim(p, query) ==
    /\ proc[p].pc \in {"idle", "done"}
    /\ query \in {"empty", "blank", "text"}
    /\ LET r == [Fresh("query") EXCEPT !.input = query] IN
       proc' = [proc EXCEPT ![p] =
                    IF query = "empty"
                    THEN [Notice(r, "validation") EXCEPT !.pc = "done"]
                    ELSE [Notice(r, "searching") EXCEPT !.pc = "q_embed"]]
    /\ UNCHANGED <<backend, settings, collectionInitialized, colls, store, vault, mtime, saving, verified>>

\* --------------------------------------------------- querySimilarNotes
\* The user submits the QueryModal: an empty or blank query is refused with
\* a Notice; otherwise the Notice and generateEmbedding's request.
querySimilarNotes(p, query) ==
    /\ proc[p].pc \in {"idle", "done"}
    /\ query \in {"empty", "blank", "text"}
    /\ LET r == [Fresh("query") EXCEPT !.input = query] IN
       proc' = [proc EXCEPT ![p] =
                    IF query # "text"
                    THEN [Notice(r, "validation") EXCEPT !.pc = "done"]
                    ELSE [Notice(r, "searching") EXCEPT !.pc = "q_embed"]]
    /\ UNCHANGED <<backend, settings, collectionInitialized, colls, store, vault, mtime, saving, verified>>

\* The command "find similar to the current note" starts: without an active
\* markdown view ("noview") or without a file in it ("nofile") it shows a
\* notice and returns; otherwise it shows 'Finding similar notes...' and
\* awaits vault.read(file), file being the active view's file.
findSimilarToCurrentNote(p, active, file) ==
    /\ proc[p].pc \in {"idle", "done"}
    /\ active \in {"noview", "nofile", "file"}
    /\ file \in 1..vault
    /\ LET r == Fresh("find") IN
       proc' = [proc EXCEPT ![p] =
                    IF active = "noview"
                    THEN [Notice([r EXCEPT !.input = active], "no_active_note")
                             EXCEPT !.pc = "done"]
                    ELSE IF active = "nofile"
                    THEN [Notice([r EXCEPT !.input = active], "no_active_file")
                             EXCEPT !.pc = "done"]
                    ELSE [Notice([r EXCEPT !.input = active], "finding")
                             EXCEPT !.pc = "f_read", !.exclude = file]]
    /\ UNCHANGED <<backend, settings, collectionInitialized, colls, store, vault, mtime, saving, verified>>

\* vault.read completes for the active file: a throw lands in the catch;
\* otherwise generateEmbedding(content) is awaited.
FindRead(p, o) ==
    /\ proc[p].pc = "f_read"
    /\ o \in {"ok", "throw"}
    /\ proc' = [proc EXCEPT ![p] =
                    IF o = "ok" THEN [proc[p] EXCEPT !.pc = "q_embed"] ELSE ShowError(proc[p])]
    /\ UNCHANGED <<backend, settings, collectionInitialized, colls, store, vault, mtime, saving, verified>>

\* generateEmbedding completes for the query: a throw lands in the caller's
\* catch; otherwise searchSimilar(embedding, 10) starts with ensureCollection.
QueryEmbedding(p, o) ==
    /\ proc[p].pc = "q_embed"
    /\ o \in {"ok", "throw"}
    /\ LET r == Clr(proc[p]) IN
       proc' = [proc EXCEPT ![p] = IF o = "ok" THEN ensureCollection(r) ELSE ShowError(r)]
    /\ UNCHANGED <<backend, settings, collectionInitialized, colls, store, vault, mtime, saving, verified>>

\* The search request completes: a throw is rethrown to the caller's catch;
\* otherwise the rows are post-processed and shown.
SearchDone(p) ==
    /\ proc[p].pc = "search"
    /\ \E resp \in Search(proc[p].tgt, proc[p].body) :
        LET r == Clr(proc[p]) IN
        proc' = [proc EXCEPT ![p] =
                    IF resp.kind = "throw" THEN ShowError(r)
                    ELSE ShowResults(r, PostProcess(backend, <<resp.rows>>, QueryLimit,
                                                    r.exclude))]
    /\ UNCHANGED <<backend, settings, collectionInitialized, colls, store, vault, mtime, saving, verified>>

\* ------------------------------------------------------------- settings
\* JavaScript's `value || fallback` for a string.
OrDefault(value, fallback) == IF value = Empty THEN fallback ELSE value

\* The fallback each onChange handler of the settings tab writes out.
TabDefault(field) ==
    CASE field = "url" -> "u1"
      [] field = "coll" -> "c1"
      [] field = "model" -> "nomic-embed-text"
      [] field = "ollamaUrl" -> "o1"

\* loadSettings: Object.assign({}, DEFAULT_SETTINGS, await this.loadData()).
\* Every key data.json holds overrides the default, whatever its value.
loadSettings(b, data) ==
    [f \in OptionNames |->
        IF data[f] # Unset THEN data[f]
        ELSE IF f \in {"url", "coll"} THEN DEFAULT_SETTINGS[f]
        ELSE DEFAULT_OLLAMA(b)[f]]

\* The settings tab: onChange of an option assigns `value || <fallback>` and
\* calls saveSettings, which awaits saveData.
OnChange(field, value) ==
    /\ saving < MaxSaving
    /\ IF field \in {"url", "coll"}
       THEN /\ settings' = [settings EXCEPT ![field] = OrDefault(value, TabDefault(field))]
            /\ UNCHANGED ollama
       ELSE /\ ollama' = [ollama EXCEPT ![field] = OrDefault(value, TabDefault(field))]
            /\ UNCHANGED settings
    /\ saving' = saving + 1
    /\ UNCHANGED <<backend, collectionInitialized, colls, store, vault, mtime, proc, verified>>

\* saveSettings after `await this.saveData(this.settings)`: the flag is
\* reset; when saveData rejects, the assignment is never reached.
saveSettings(o) ==
    /\ saving > 0
    /\ o \in {"ok", "throw"}
    /\ saving' = saving - 1
    /\ collectionInitialized' = IF o = "ok" THEN FALSE ELSE collectionInitialized
    /\ UNCHANGED <<backend, settings, colls, store, vault, mtime, proc, verified>>

\* ------------------------------------------------------- specifications
\* Nothing recorded.
NoHist == [synced |-> [f \in Files |-> 0], del |-> "none",
           content |-> [f \in Files |-> NoTime], mismatch |-> [f \in Files |-> {}],
           had |-> FALSE, stale |-> FALSE, owed |-> [f \in Files |-> FALSE]]
NoCall == [fn |-> "none"]
NoPass == [total |-> 0, idx |-> 0, processedCount |-> 0, errorCount |-> 0,
           progress |-> <<>>, completed |-> FALSE]

CollStates(b) == IF b = "chroma" THEN {"absent", "loaded"}
                 ELSE {"absent", "unloaded", "loaded"}

\* The records a key may hold when the plugin starts: none, or one written
\* earlier (by this plugin, or by another client without a modified_time).
InitRecs == {<<>>} \cup {<<Record(t)>> : t \in Times \cup {NoTime}}

InitPlugin ==
    /\ backend \in Backends
    /\ settings = DEFAULT_SETTINGS
    /\ collectionInitialized = FALSE
    /\ saving = 0
    /\ verified = DEFAULT_SETTINGS
    /\ ollama = DEFAULT_OLLAMA(backend)
    /\ proc = [p \in Procs |-> Fresh("none")]
    /\ hist = NoHist
    /\ call = NoCall
    /\ pass = NoPass

\* The plugin starts on a vault whose files were last saved at one time m,
\* against the default store: its collection is absent, or it holds for
\* every key the same earlier records.  (What differs from key to key comes
\* from the passes themselves: a document written, another one failed.)
Init ==
    /\ InitPlugin
    /\ vault \in 0..NumFiles
    /\ \E m \in Times : mtime = [f \in Files |-> m]
    /\ \E c \in CollStates(backend), recs \in InitRecs :
          /\ c = "absent" => recs = <<>>
          /\ colls = [t \in Targets |-> IF t = DEFAULT_SETTINGS THEN c ELSE "absent"]
          /\ store = [t \in Targets |-> [f \in Files |->
                         IF t = DEFAULT_SETTINGS THEN recs ELSE <<>>]]

ProcStep(p) ==
    \/ refreshModifiedVectors(p)
    \/ recomputeAllVectors(p)
    \/ \E b \in BOOLEAN : ConfirmModal(p, b)
    \/ \E o \in HasOutcomes(backend) : EnsureHas(p, o)
    \/ \E o \in CreateOutcomes(backend) : EnsureCreate(p, o)
    \/ \E o \in {"ok", "throw", "soft"} : EnsureLoad(p, o)
    \/ \E resp \in Answers : CheckDone(p, resp)
    \/ \E o \in {"ok", "throw"} : VaultRead(p, o)
    \/ \E o \in {"ok", "throw"} : GenerateEmbedding(p, o)
    \/ \E o \in {"ok", "throw", "soft"} : MilvusDelete(p, o)
    \/ \E o \in WriteOutcomes(backend) : StoreWrite(p, o)

\* One command at a time.
Next == ProcStep("p1") /\ UNCHANGED <<ollama, hist, call, pass>>

Spec == Init /\ [][Next]_vars

\* The step from r to q is a write the store accepted.
Accepted(r, q) ==
    r.pc = "write" /\ q.processedCount > r.processedCount /\ r.idx \notin q.refused

\* The step from r to q ends a vectorizeNote call in failure: it threw (the
\* read, the embedding or the write), or the store refused the write.
CallFailed(r, q) ==
    /\ r.pc \in {"read", "embed", "write"}
    /\ q.errorCount > r.errorCount \/ (r.pc = "write" /\ r.idx \in q.refused)

\* A document is stale when its key holds no record, or when
\* checkIfNeedsUpdate says so for each of the key's records.
IsStale(recs, mt) ==
    \A j \in DOMAIN recs :
        checkIfNeedsUpdate(backend, [kind |-> "row", first |-> recs[j].mt], mt)

\* History of the vectorizeNote calls of process p, written as its step is
\* taken.  synced[f] counts the calls for document f that returned one after
\* the other with their write accepted by the store (0 again once a call
\* throws or its write is refused); del tells whether the last delete of the
\* Milvus variant removed anything ("nothing": it found no record or
\* failed), and then whether the insert after such a delete was accepted.
\* content[f] is the time of the content the vectorizeNote in flight read
\* (a content is named by the file's mtime when it was read), and
\* mismatch[f] the positions of the records of f, in the collection of the
\* settings, whose stored time is not the time of the content they were
\* embedded from.  had tells whether the key of the call in flight held a
\* record when the call began, stale whether the document was stale then,
\* and owed[f] whether the last call for f failed on a stale document.
HistStep(p) ==
    LET r == proc[p]
        q == proc'[p]
        f == r.idx
        called == q.pc = "read" /\ (r.pc # "read" \/ q.idx # r.idx)
        had == IF called THEN store'[settings][q.idx] # <<>> ELSE hist.had
        stale == IF called THEN IsStale(store'[settings][q.idx], mtime[q.idx])
                 ELSE hist.stale
        owed == IF CallFailed(r, q) THEN [hist.owed EXCEPT ![f] = hist.stale]
                ELSE IF Accepted(r, q) THEN [hist.owed EXCEPT ![f] = FALSE]
                ELSE hist.owed
    IN  hist' = [had |-> had, stale |-> stale, owed |-> owed] @@
          IF r.pc = "del"
          THEN [hist EXCEPT !.del = IF store' = store THEN "nothing" ELSE "deleted",
                            !.mismatch[f] = IF store' = store THEN @ ELSE {}]
          ELSE IF r.pc = "write"
          THEN [hist EXCEPT
                   !.synced[f] = IF Accepted(r, q) THEN Min(@ + 1, 2) ELSE 0,
                   !.del = IF hist.del = "nothing" /\ Accepted(r, q)
                           THEN "nothing, inserted" ELSE "none",
                   !.mismatch[f] =
                       IF ~Accepted(r, q) THEN @
                       ELSE IF backend = "chroma"
                       THEN (IF hist.content[f] # r.body THEN {1} ELSE {})
                       ELSE (IF hist.content[f] # r.body
                             THEN @ \cup {Len(store'[r.tgt][f])} ELSE @)]
          ELSE IF r.pc \in {"read", "embed"} /\ q.errorCount > r.errorCount
          THEN [hist EXCEPT !.synced[f] = 0]
          ELSE IF r.pc = "read"
          THEN [hist EXCEPT !.content[f] = mtime[f]]
          ELSE hist

\* The sync commands run again and again over a vault of one document, with
\* the history of its vectorizeNote calls.
InitHist == Init /\ vault = 1

NextHist == ProcStep("p1") /\ HistStep("p1") /\ UNCHANGED <<ollama, call, pass>>

SpecHist == InitHist /\ [][NextHist]_vars

\* The sync commands with every way of leaving the ConfirmModal.
NextConfirm ==
    \/ Next
    \/ ConfirmModalClosed("p1") /\ UNCHANGED <<ollama, hist, call, pass>>

SpecConfirm == Init /\ [][NextConfirm]_vars

\* The user edits and saves document f while a command runs: the file has a
\* new content and a later mtime.
Edit(f) ==
    /\ f \in 1..vault
    /\ mtime[f] < MaxTime
    /\ mtime' = [mtime EXCEPT ![f] = @ + 1]
    /\ UNCHANGED <<backend, settings, collectionInitialized, colls, store, vault, proc,
                   saving, verified>>

\* The sync commands over a vault of one document that is edited meanwhile.
NextEdit ==
    \/ NextHist
    \/ \E f \in Files : Edit(f) /\ UNCHANGED <<ollama, hist, call, pass>>

SpecEdit == InitHist /\ [][NextEdit]_vars

\* The plugin with its settings tab open: the store address and the
\* collection name change while a command runs.  The stores start empty.
InitConn ==
    /\ InitPlugin
    /\ vault = 1
    /\ mtime = [f \in Files |-> 0]
    /\ \E c \in CollStates(backend) :
          colls = [t \in Targets |-> IF t = DEFAULT_SETTINGS THEN c ELSE "absent"]
    /\ store = [t \in Targets |-> [f \in Files |-> <<>>]]

ProcStepConn(p) ==
    \/ \E q \in {"empty", "blank", "text"} : querySimilarNotes(p, q)
    \/ \E a \in {"noview", "nofile", "file"}, f \in Files : findSimilarToCurrentNote(p, a, f)
    \/ \E o \in {"ok", "throw"} : FindRead(p, o)
    \/ \E o \in {"ok", "throw"} : QueryEmbedding(p, o)
    \/ \E o \in HasOutcomes(backend) : EnsureHas(p, o)
    \/ \E o \in CreateOutcomes(backend) : EnsureCreate(p, o)
    \/ \E o \in {"ok", "throw", "soft"} : EnsureLoad(p, o)
    \/ SearchDone(p)

NextConn ==
    \/ ProcStepConn("p1") /\ UNCHANGED <<ollama, hist, call, pass>>
    \/ \E v \in Urls \cup {Empty} : OnChange("url", v) /\ UNCHANGED <<hist, call, pass>>
    \/ \E v \in Colls \cup {Empty} : OnChange("coll", v) /\ UNCHANGED <<hist, call, pass>>
    \/ \E o \in {"ok", "throw"} : saveSettings(o) /\ UNCHANGED <<ollama, hist, call, pass>>

SpecConn == InitConn /\ [][NextConn]_vars

\* searchSimilar's handling of a search answer, applied to every answer of
\* up to MaxGroups groups of up to MaxRows rows.
Paths == {NoPath} \cup Files
Dists == {NoDist, 0, 2}
Rows == {Row(path, d) : path \in Paths, d \in Dists}
Groups == UNION {[1..n -> Rows] : n \in 0..MaxRows}
Responses == UNION {[1..n -> Groups] : n \in 0..MaxGroups}

InitSearch == InitConn /\ colls[DEFAULT_SETTINGS] = "loaded"

\* One call: the answer arrives and searchSimilar returns its results.
SearchReturns(limit, excludePath, groups) ==
    /\ call = NoCall
    /\ call' = [fn |-> "searchSimilar", limit |-> limit, excludePath |-> excludePath,
                groups |-> groups,
                results |-> PostProcess(backend, groups, limit, excludePath)]
    /\ UNCHANGED <<backend, settings, collectionInitialized, colls, store, vault, mtime,
                   proc, saving, verified, ollama, hist, pass>>

NextSearch ==
    /\ call = NoCall
    /\ \E limit \in 1..MaxLimit, excludePath \in Paths, groups \in Responses :
          SearchReturns(limit, excludePath, groups)

SpecSearch == InitSearch /\ [][NextSearch]_vars

\* ---- the four options, from loadSettings on through the settings tab ----
\* A value the user typed for an option, other than its defaults.
Custom(f) ==
    CASE f = "url" -> "u2"
      [] f = "coll" -> "c2"
      [] f = "model" -> "m2"
      [] f = "ollamaUrl" -> "o2"

\* What data.json holds when the plugin loads: each option is missing or
\* holds a value the settings tab saved earlier.
Persisted == [OptionNames -> {Unset} \cup {Custom(f) : f \in OptionNames}]

\* The value of an option in this.settings.
Value(f) == IF f \in {"url", "coll"} THEN settings[f] ELSE ollama[f]

\* onload: loadSettings() is awaited before anything else.
InitSettings ==
    /\ backend \in Backends
    /\ \E data \in Persisted :
          /\ \A f \in OptionNames : data[f] \in {Unset, Custom(f)}
          /\ LET loaded == loadSettings(backend, data) IN
             /\ settings = [url |-> loaded["url"], coll |-> loaded["coll"]]
             /\ ollama = [model |-> loaded["model"], ollamaUrl |-> loaded["ollamaUrl"]]
    /\ collectionInitialized = FALSE
    /\ saving = 0
    /\ verified = DEFAULT_SETTINGS
    /\ proc = [p \in Procs |-> Fresh("none")]
    /\ hist = NoHist
    /\ call = NoCall
    /\ pass = NoPass
    /\ vault = 1
    /\ mtime = [f \in Files |-> 0]
    /\ \E c \in CollStates(backend) :
          colls = [t \in Targets |-> IF t = DEFAULT_SETTINGS THEN c ELSE "absent"]
    /\ store = [t \in Targets |-> [f \in Files |-> <<>>]]

NextSettings ==
    \/ \E f \in OptionNames :
          \E v \in {Empty, Custom(f)} : OnChange(f, v) /\ UNCHANGED <<hist, call, pass>>
    \/ \E o \in {"ok", "throw"} : saveSettings(o) /\ UNCHANGED <<ollama, hist, call, pass>>

SpecSettings == InitSettings /\ [][NextSettings]_vars

\* ---- contentPreview, applied to note contents of every shape ----
\* A content is a sequence of runs: n times the character c, where c is a
\* line feed ("nl"), a space ("sp"), a carriage return ("cr") or any other
\* character ("x").
Chars == {"nl", "sp", "cr", "x"}
RunLengths == {1, PreviewLen - 1, PreviewLen, PreviewLen + 1}
Runs == [c : Chars, n : RunLengths]
Contents == UNION {[1..k -> Runs] : k \in 0..MaxRuns}

RECURSIVE Length(_)
Length(runs) == IF runs = <<>> THEN 0 ELSE Head(runs).n + Length(Tail(runs))

\* The i-th character (from 1) of a content at least i long.
RECURSIVE CharAt(_, _)
CharAt(runs, i) ==
    IF i <= Head(runs).n THEN Head(runs).c ELSE CharAt(Tail(runs), i - Head(runs).n)

\* content.substring(0, n)
RECURSIVE Substring(_, _)
Substring(runs, n) ==
    IF runs = <<>> \/ n = 0 THEN <<>>
    ELSE IF Head(runs).n <= n
    THEN <<Head(runs)>> \o Substring(Tail(runs), n - Head(runs).n)
    ELSE <<[c |-> Head(runs).c, n |-> n]>>

\* text.replace('\n', ' '): the first line feed only.
RECURSIVE ReplaceFirst(_)
ReplaceFirst(runs) ==
    IF runs = <<>> THEN <<>>
    ELSE IF Head(runs).c # "nl" THEN <<Head(runs)>> \o ReplaceFirst(Tail(runs))
    ELSE IF Head(runs).n = 1 THEN <<[c |-> "sp", n |-> 1]>> \o Tail(runs)
    ELSE <<[c |-> "sp", n |-> 1], [c |-> "nl", n |-> Head(runs).n - 1]>> \o Tail(runs)

\* text.replace(/\n/g, ' '): every line feed.
ReplaceAll(runs) ==
    [i \in DOMAIN runs |-> [runs[i] EXCEPT !.c = IF @ = "nl" THEN "sp" ELSE @]]

\* A variant without the g flag.
contentPreview_FirstOnly(content) == ReplaceFirst(Substring(content, PreviewLen))

\* vectorizeNote: content.substring(0, 500).replace(/\n/g, ' ')
contentPreview(content) == ReplaceAll(Substring(content, PreviewLen))

InitPreview == InitSearch

\* vectorizeNote derives the preview of a content it has read.
PreviewDerived(content) ==
    /\ call = NoCall
    /\ call' = [fn |-> "contentPreview", content |-> content,
                preview |-> contentPreview(content)]
    /\ UNCHANGED <<backend, settings, collectionInitialized, colls, store, vault, mtime,
                   proc, saving, verified, ollama, hist, pass>>

NextPreview == call = NoCall /\ \E content \in Contents : PreviewDerived(content)

SpecPreview == InitPreview /\ [][NextPreview]_vars

\* ---- the loop of recomputeAllVectors, over a vault of up to MaxDocs ----
\* vectorizeNote is taken as one step that returns or throws; the loop keeps
\* its two counters and shows a progress Notice (kept here with the number
\* of documents gone through when it was shown).
InitProgress ==
    /\ backend \in Backends
    /\ settings = DEFAULT_SETTINGS
    /\ ollama = DEFAULT_OLLAMA(backend)
    /\ collectionInitialized = TRUE
    /\ saving = 0
    /\ verified = DEFAULT_SETTINGS
    /\ proc = [p \in Procs |-> Fresh("none")]
    /\ hist = NoHist
    /\ call = NoCall
    /\ vault = 1
    /\ mtime = [f \in Files |-> 0]
    /\ colls = [t \in Targets |-> IF t = DEFAULT_SETTINGS THEN "loaded" ELSE "absent"]
    /\ store = [t \in Targets |-> [f \in Files |-> <<>>]]
    /\ \E total \in 0..MaxDocs : pass = [NoPass EXCEPT !.total = total]

\* One turn of `for (const file of markdownFiles)`.
LoopTurn(o) ==
    /\ pass.idx < pass.total
    /\ o \in {"ok", "throw"}
    /\ pass' =
          IF o = "throw"
          THEN [pass EXCEPT !.idx = @ + 1, !.errorCount = @ + 1]
          ELSE LET n == pass.processedCount + 1 IN
               [pass EXCEPT !.idx = @ + 1, !.processedCount = n,
                            !.progress = IF ProgressDue("recompute", n)
                                         THEN Append(@, [at |-> pass.idx + 1, shown |-> n])
                                         ELSE @]
    /\ UNCHANGED <<backend, settings, collectionInitialized, colls, store, vault, mtime,
                   proc, saving, verified, ollama, hist, call>>

\* Past the last file: the Notice 'Completed! Processed ...'.
LoopEnd ==
    /\ pass.idx = pass.total
    /\ ~pass.completed
    /\ pass' = [pass EXCEPT !.completed = TRUE]
    /\ UNCHANGED <<backend, settings, collectionInitialized, colls, store, vault, mtime,
                   proc, saving, verified, ollama, hist, call>>

NextProgress ==
    \/ \E o \in {"ok", "throw"} : LoopTurn(o)
    \/ LoopEnd

SpecProgress == InitProgress /\ [][NextProgress]_vars

\* ---- two commands in flight at once, against a store that works ----
\* Obsidian starts a command whenever the user asks for it: a second query
\* may begin while the first is suspended at an await.
Racers == {"p1", "p2"}

InitRace ==
    /\ backend \in Backends
    /\ settings = DEFAULT_SETTINGS
    /\ ollama = DEFAULT_OLLAMA(backend)
    /\ collectionInitialized = FALSE
    /\ saving = 0
    /\ verified = DEFAULT_SETTINGS
    /\ proc = [p \in Racers |-> Fresh("none")]
    /\ hist = NoHist
    /\ call = NoCall
    /\ pass = NoPass
    /\ vault = 1
    /\ mtime = [f \in Files |-> 0]
    /\ \E c \in CollStates(backend) :
          colls = [t \in Targets |-> IF t = DEFAULT_SETTINGS THEN c ELSE "absent"]
    /\ store = [t \in Targets |-> [f \in Files |-> <<>>]]

\* The create request completes at a store that works: it creates the
\* collection; Chroma answers a request for a name that exists with an
\* error status, on which requestUrl throws.
CreateAtWorkingStore(p) ==
    IF backend = "chroma" /\ colls[proc[p].tgt] # "absent"
    THEN EnsureCreate(p, "throw")
    ELSE EnsureCreate(p, "ok")

\* No request fails for a reason of its own.
ProcStepRace(p) ==
    \/ querySimilarNotes(p, "text")
    \/ QueryEmbedding(p, "ok")
    \/ EnsureHas(p, "ok")
    \/ CreateAtWorkingStore(p)
    \/ EnsureLoad(p, "ok")
    \/ SearchDone(p)

NextRace == \E p \in Racers : ProcStepRace(p) /\ UNCHANGED <<ollama, hist, call, pass>>

SpecRace == InitRace /\ [][NextRace]_vars

\* ================================================================ claims
SyncCmds == {"refresh", "recompute"}
EnsurePcs == {"ens_has", "ens_create", "ens_load"}

\* The lookup of the last checkIfNeedsUpdate of p failed: the request threw,
\* the body was null or lacked its field, or the first row was null.
LookupFailed(c) ==
    \/ c.kind \in {"throw", "nulljson", "nofield"}
    \/ c.kind = "row" /\ c.first = NullRow

\* C1: in every reachable state, a collection holds at most one Vector
\* Record per document key, in both variants.
C1_AtMostOneRecordPerKey ==
    \A t \in Targets, f \in Files : Len(store[t][f]) <= 1

\* C2: checkIfNeedsUpdate returns true whenever the record found for the key
\* carries no stored modified-time, in both variants.
C2_MissingTimeIsStale ==
    \A p \in Procs :
        LET c == proc[p].chk IN
        (c.valid /\ c.kind = "row" /\ c.first = NoTime) => c.res = TRUE

\* C3: when the record found carries a stored modified-time (0 included),
\* checkIfNeedsUpdate returns true if and only if file.stat.mtime is strictly
\* greater than it.
C3_StaleIffStrictlyNewer ==
    \A p \in Procs :
        LET c == proc[p].chk IN
        (c.valid /\ c.kind = "row" /\ c.first \in Times) =>
            (c.res <=> c.mt > c.first)

\* C4: checkIfNeedsUpdate returns true whenever the collection holds no
\* record for the file's key.
C4_NoRecordIsStale ==
    \A p \in Procs :
        LET c == proc[p].chk IN
        (c.valid /\ store[c.tgt][c.file] = <<>>) => c.res = TRUE

C4_Witness ==
    \E p \in Procs :
        LET c == proc[p].chk IN
        c.valid /\ c.kind = "empty" /\ store[c.tgt][c.file] = <<>> /\ c.res

\* C5: when the lookup inside checkIfNeedsUpdate fails, checkIfNeedsUpdate
\* does not throw (the loop's catch counts nothing for the file) and returns
\* true, and refreshModifiedVectors goes on to vectorizeNote for the file.
C5_FailedLookupIsStale ==
    \A p \in Procs :
        LET c == proc[p].chk IN
        (c.valid /\ LookupFailed(c)) =>
            /\ c.res = TRUE
            /\ c.file \notin proc[p].failed
            /\ proc[p].pc = "read" /\ proc[p].idx = c.file
            /\ c.file \in proc[p].attempted

C5_Witness ==
    \E p \in Procs :
        LET c == proc[p].chk IN
        /\ c.valid /\ c.kind = "throw" /\ store[c.tgt][c.file] # <<>>
        /\ proc[p].pc = "read"

\* C6: after a change of the store address or of the collection name, no
\* operation sends a store request to the new settings while relying on a
\* readiness value established under the old ones: the search request of a
\* query whose ensureCollection returned true goes to the address and the
\* collection that readiness was established for.
C6_ReadinessMatchesSettings ==
    \A p \in Procs :
        (proc[p].pc = "search" /\ proc[p].ens \in {"cached", "checked"}) =>
            proc[p].tgt = proc[p].basis

\* C7: the flag is true only when every readiness step has succeeded, so the
\* collection it was set for is there (and loaded, for Milvus); and a command
\* whose ensureCollection failed has shown the error, has ended, and has
\* checked, embedded and written nothing.
C7_ReadyOnlyAfterAllSteps ==
    /\ collectionInitialized => Available(verified)
    /\ \A p \in Procs :
          proc[p].ens = "failed" =>
              /\ proc[p].pc = "done"
              /\ "connect_error" \in {proc[p].notices[i] : i \in DOMAIN proc[p].notices}
              /\ proc[p].stale \cup proc[p].fresh \cup proc[p].attempted = {}
              /\ ~proc[p].report.shown

\* The step in which process p calls ensureCollection.
EnsureCalled(p) ==
    \/ proc[p].pc \in {"idle", "done"} /\ proc'[p].cmd = "refresh"
    \/ proc[p].pc = "confirm" /\ proc'[p].notices # <<>>
    \/ proc[p].pc = "q_embed" /\ proc'[p].ens # "none"

\* C8: a call of ensureCollection that returns true leaves the flag set; the
\* flag stays set until a saveSettings call resets it; and while it is set,
\* every call returns true at once, without sending a request to the store.
C8_EnsureIsCached ==
    [][/\ \A p \in Procs :
            /\ (proc[p].ens = "pending" /\ proc'[p].ens = "checked")
                   => collectionInitialized'
            /\ (EnsureCalled(p) /\ collectionInitialized)
                   => /\ proc'[p].ens = "cached"
                      /\ proc'[p].pc \notin EnsurePcs
                      /\ UNCHANGED <<colls, store, collectionInitialized>>
       /\ (collectionInitialized /\ ~collectionInitialized') => saving' < saving
      ]_vars

C8_Witness ==
    \E p \in Procs :
        /\ collectionInitialized
        /\ proc[p].ens = "cached" /\ proc[p].pc = "search"
        /\ proc[p].tgt = verified

\* The documents of a pass whose processing failed: vectorizeNote threw, or
\* the store answered the write with an error.
Failures(r) == r.failed \cup r.refused

\* C9: when a pass shows its tally, every document of its list has been
\* gone through although some failed (recompute: attempted; refresh: judged,
\* and attempted when stale); and for recomputeAllVectors over N documents
\* of which the set F failed, errors = |F| and processed = N - |F|.
C9_BatchIsolationAndTally ==
    \A p \in Procs :
        LET r == proc[p] IN
        (r.report.shown /\ r.cmd \in SyncCmds) =>
            /\ r.cmd = "refresh" =>
                   r.stale \cup r.fresh = 1..vault /\ r.attempted = r.stale
            /\ r.cmd = "recompute" =>
                   /\ r.attempted = 1..vault
                   /\ r.report.errors = Cardinality(Failures(r))
                   /\ r.report.processed = vault - Cardinality(Failures(r))

\* C10: in refreshModifiedVectors an embedding request or a store write is
\* only ever issued for a document checkIfNeedsUpdate judged stale, and no
\* step of the pass changes the records of a document it judged not stale.
C10_OnlyStaleAreWritten ==
    [][\A p \in Procs :
          proc'[p].cmd = "refresh" =>
              /\ proc'[p].attempted \subseteq proc'[p].stale
              /\ proc'[p].embedded \subseteq proc'[p].stale
              /\ proc'[p].written \subseteq proc'[p].stale
              /\ \A f \in proc'[p].fresh, t \in Targets :
                     store'[t][f] = store[t][f]
      ]_vars

C10_Witness ==
    \E p \in Procs :
        /\ proc[p].cmd = "refresh" /\ proc[p].report.shown
        /\ proc[p].fresh # {} /\ proc[p].written # {}
        /\ \E f \in proc[p].fresh : store[settings][f] # <<>>

\* C11: after two vectorizeNote calls in succession for a document whose
\* content and timestamp did not change, the collection holds exactly one
\* record for its key, and a checkIfNeedsUpdate that follows (its lookup
\* answered) returns false.
C11_SyncIsIdempotent ==
    /\ \A f \in Files :
          hist.synced[f] = 2 => Len(store[settings][f]) = 1
    /\ \A p \in Procs :
          LET c == proc[p].chk IN
          (c.valid /\ hist.synced[c.file] = 2 /\ ~LookupFailed(c)) => c.res = FALSE

\* C12: whatever the search answer, searchSimilar returns no result whose
\* key is excludePath and at most `limit` results.
C12_ExcludedAndBounded ==
    call.fn = "searchSimilar" =>
        /\ Len(call.results) <= call.limit
        /\ call.excludePath # NoPath =>
               \A i \in DOMAIN call.results :
                   call.results[i].filePath # call.excludePath

C13_DeclineDoesNothing ==
    [][\A p \in Procs :
          proc'[p].confirmed = "no" =>
              /\ proc'[p].pc = "done" /\ proc'[p].ens = "none"
              /\ proc'[p].attempted \cup proc'[p].embedded \cup proc'[p].written = {}
              /\ UNCHANGED <<collectionInitialized, colls, store>>
      ]_vars

C13_Witness ==
    \E p \in Procs :
        /\ proc[p].confirmed = "no" /\ proc[p].pc = "done"
        /\ collectionInitialized
        /\ \E f \in Files : store[settings][f] # <<>>

\* C15: a recompute pass has called vectorizeNote for every document; and
\* when none of them failed, every document has, in the collection, a record
\* whose stored modified-time is the document's file.stat.mtime.
C15_RecomputeBringsAgreement ==
    \A p \in Procs :
        LET r == proc[p] IN
        (r.report.shown /\ r.cmd = "recompute") =>
            /\ r.attempted = 1..vault
            /\ Failures(r) = {} =>
                   \A f \in 1..vault :
                       \E j \in DOMAIN store[settings][f] :
                           store[settings][f][j].mt = mtime[f]

C15_Witness ==
    \E p \in Procs :
        /\ proc[p].report.shown /\ proc[p].cmd = "recompute"
        /\ Failures(proc[p]) = {} /\ vault = NumFiles
        /\ mtime[1] = MaxTime

\* C16: in the Milvus variant the insert request is issued after the delete
\* whatever the delete did; and when a delete that removed nothing (no
\* matching record, or an error) is followed by an accepted insert, the
\* record is in the collection afterwards.
C16_InsertAfterFailedDelete ==
    [][\A p \in Procs :
          LET r == proc[p]
              q == proc'[p]
          IN  /\ r.pc = "del" =>
                     q.pc = "write" /\ q.idx = r.idx /\ q.errorCount = r.errorCount
              /\ (hist.del = "nothing" /\ Accepted(r, q)) =>
                     \E j \in DOMAIN store'[r.tgt][r.idx] :
                         store'[r.tgt][r.idx][j] = Record(r.body)
      ]_vars

C16_Witness ==
    /\ backend = "milvus"
    /\ hist.del = "nothing, inserted"
    /\ Len(store[settings][1]) = 2

\* The notifications that report how a command ended.
TerminalNotices ==
    {"tally", "no_results", "modal", "error", "connect_error", "validation",
     "no_active_note", "no_active_file"}

\* C18: a command that has ended has reported a terminal status through a
\* notification, on every path.
C18_EndedCommandsHaveReported ==
    \A p \in Procs :
        proc[p].pc = "done" =>
            \E i \in DOMAIN proc[p].notices : proc[p].notices[i] \in TerminalNotices

\* The inputs the commands reject.
InvalidInputs == {"empty", "blank", "noview", "nofile"}

\* The notice a rejected input gets.
ValidationNotice(input) ==
    CASE input \in {"empty", "blank"} -> "validation"
      [] input = "noview" -> "no_active_note"
      [] input = "nofile" -> "no_active_file"

\* C14: a query that is empty or only blanks, and a similar-to-current
\* command without an active view or file, end in the step that starts
\* them: the validation notice is the only notice, no embedding request and
\* no readiness check is started, and the flag, the collections and the
\* records are as they were.
C14_InvalidInputIsRejectedFirst ==
    [][\A p \in Procs :
          (proc'[p] # proc[p] /\ proc'[p].input \in InvalidInputs) =>
              /\ proc'[p].pc = "done" /\ proc'[p].ens = "none"
              /\ proc'[p].notices = <<ValidationNotice(proc'[p].input)>>
              /\ UNCHANGED <<collectionInitialized, colls, store, verified>>
      ]_vars

C14_Witness ==
    \E p \in Procs :
        /\ proc[p].input = "blank" /\ proc[p].pc = "done"
        /\ proc[p].notices = <<"validation">>
        /\ collectionInitialized

\* The default the settings tab and the README document for each option.
DocumentedDefault(f) ==
    CASE f = "url" -> "u1"
      [] f = "coll" -> "c1"
      [] f = "model" -> "nomic-embed-text"
      [] f = "ollamaUrl" -> "o1"

\* C19: each of the four options is never empty, and when the user has set
\* no value of their own it holds the documented default, the same one
\* after loadSettings and after clearing the field in the settings tab.
C19_OptionsHoldTheDocumentedDefault ==
    \A f \in OptionNames :
        /\ Value(f) # Empty
        /\ Value(f) # Custom(f) => Value(f) = DocumentedDefault(f)

\* C20: the content preview is the first 500 characters of the content (the
\* whole content when it is shorter), each line feed replaced by a space and
\* every other character as it was.
C20_PreviewIsFirst500WithoutNewlines ==
    call.fn = "contentPreview" =>
        /\ Length(call.preview) = Min(Length(call.content), PreviewLen)
        /\ \A i \in 1..Length(call.preview) :
              CharAt(call.preview, i) =
                  IF CharAt(call.content, i) = "nl" THEN "sp" ELSE CharAt(call.content, i)

C20_Witness ==
    /\ call.fn = "contentPreview"
    /\ Length(call.content) > PreviewLen
    /\ CharAt(call.content, 1) = "nl"
    /\ CharAt(call.content, PreviewLen) = "nl"
    /\ CharAt(call.content, PreviewLen + 1) = "nl"
    /\ Length(call.preview) = PreviewLen

\* C21: no result of searchSimilar is without a filePath: a row whose
\* file_path is missing, null or empty is passed over, in both variants.
C21_NoResultWithoutPath ==
    call.fn = "searchSimilar" =>
        \A i \in DOMAIN call.results : call.results[i].filePath # NoPath

\* The notifications that tell how a search command came out.
SearchOutcomes == {"modal", "no_results", "error", "connect_error"}

\* The outcome notifications a command has shown.
Outcomes(r) == {i \in DOMAIN r.notices : r.notices[i] \in SearchOutcomes}

\* C22: a find-similar or query command that got past its validation has,
\* once it has ended, shown exactly one outcome notification after its
\* first notice, whatever failed on the way.
C22_OneOutcomeNotice ==
    \A p \in Procs :
        LET r == proc[p] IN
        (r.pc = "done" /\ r.input \in {"text", "file"}) =>
            Cardinality(Outcomes(r)) = 1

\* C23: the search request of findSimilarToCurrentNote excludes the open
\* document's path and asks for limit + 1 rows; the one of querySimilarNotes
\* excludes nothing and asks for limit rows.
C23_OneMoreRowWhenExcluding ==
    \A p \in Procs :
        LET r == proc[p] IN
        r.pc = "search" =>
            /\ r.cmd = "find" =>
                   r.exclude \in 1..vault /\ r.body = QueryLimit + 1
            /\ r.cmd = "query" =>
                   r.exclude = NoPath /\ r.body = QueryLimit

C23_Witness ==
    \E p \in Procs :
        /\ proc[p].pc = "search" /\ proc[p].cmd = "find"
        /\ proc[p].exclude = 1 /\ proc[p].body = QueryLimit + 1

\* C24: during a recompute a progress notification has been shown for every
\* tenth document of the pass, whether or not documents of the pass failed.
C24_ProgressEveryTenDocuments ==
    /\ Len(pass.progress) = pass.idx \div ProgressEvery
    /\ \A k \in DOMAIN pass.progress : pass.progress[k].at = k * ProgressEvery

\* C25: a record whose stored modified-time is the document's mtime was
\* embedded from the document's content as it is now, also when the document
\* was edited while vectorizeNote was suspended.
C25_StoredTimeBelongsToEmbeddedContent ==
    \A f \in 1..vault :
        \A j \in DOMAIN store[settings][f] :
            store[settings][f][j].mt = mtime[f] => j \notin hist.mismatch[f]

\* C26: when a vectorizeNote call fails, a key that held a record when the
\* call began still holds one.
C26_FailedCallKeepsTheRecord ==
    [][\A p \in Procs :
          (CallFailed(proc[p], proc'[p]) /\ hist.had) =>
              store'[settings][proc[p].idx] # <<>>
      ]_vars

\* C27: with two commands in flight against a store that works, no
\* ensureCollection fails: a command that finds the collection created by
\* the other meanwhile goes on.
C27_NoFailureFromConcurrentCreate ==
    \A p \in Racers : proc[p].ens # "failed"

\* C28: a stale document whose vectorizeNote failed, in a refresh or a
\* recompute pass, is judged stale by every checkIfNeedsUpdate until a call
\* for it succeeds: the failure has not marked it as synced.
C28_FailedSyncStaysStale ==
    \A p \in Procs :
        LET c == proc[p].chk IN
        (c.valid /\ hist.owed[c.file]) => c.res = TRUE

C28_Witness ==
    \E p \in Procs :
        LET c == proc[p].chk IN
        /\ c.valid /\ hist.owed[c.file] /\ c.res = TRUE
        /\ c.kind = "row" /\ c.first \in Times

\* C29: a recomputeAllVectors that has not returned can always go on: there
\* is no state in which the command waits for something that cannot come,
\* however the user left the confirmation dialog.
C29_RecomputeCanAlwaysGoOn ==
    \A p \in Procs :
        (proc[p].cmd = "recompute" /\ proc[p].pc \notin {"idle", "done"}) =>
            ENABLED ProcStep(p)

====
